---- MODULE Spec2Model ----
(***************************************************************************)
(* Model of src/compress.js: the Compress class.  One instance, its        *)
(* config and its outputType field, and the process calls made on it.      *)
(* Every handler of a call (the synchronous part of process, the image's   *)
(* onload / onerror, the EXIF callback and the three promise               *)
(* continuations) is one action; calls interleave between handlers.        *)
(***************************************************************************)
EXTENDS Integers, Sequences, FiniteSets, TLC

(* ---------------------------- bounds ----------------------------------- *)
MaxCalls == 2        \* process calls that may be in flight on the instance
MaxDim == 6          \* largest decoded image width / height
MaxBound == 3        \* largest maxWidth / maxHeight given in the option
MaxSize == 2         \* largest input file size, bytes
MaxCandidate == 3    \* largest encoded candidate size, bytes

(* ------------------------- program constants --------------------------- *)
MIME_TYPES == [PNG |-> "image/png", JPEG |-> "image/jpeg", WEBP |-> "image/webp"]
MAX_STEPS == 4
\* Math.log(2), as a rational to six decimals
SCALE_FACTOR == [num |-> 693147, den |-> 1000000]
SUPPORT_MIME_TYPES == {MIME_TYPES[k] : k \in DOMAIN MIME_TYPES}
DEFAULT_TYPE == MIME_TYPES.JPEG

isSupportedType(type) == type \in SUPPORT_MIME_TYPES

\* file.type.match(/^image/)
MatchesImage(type) == Len(type) >= 5 /\ SubSeq(type, 1, 5) = "image"

(* ------------------------------ helpers -------------------------------- *)
\* a rational num/den, den > 0
Rat(n, d) == [num |-> n, den |-> d]
RatLeq(a, b) == a.num * b.den <= b.num * a.den
RatMin(a, b) == IF RatLeq(a, b) THEN a ELSE b
RatIsOne(a) == a.num = a.den
\* Math.ceil(n / d), n >= 0, d > 0
Ceil(n, d) == (n + d - 1) \div d
IntMin(a, b) == IF a <= b THEN a ELSE b

(* --------------------- collaborators of the class ---------------------- *)
\* the transform (a, b, c, d, e, f) that context.transform installs:
\* x' = a x + c y + e, y' = b x + d y + f
Identity == <<1, 0, 0, 1, 0, 0>>

\* the table of getTransform: one affine per Orientation tag
TransformTable(img, orientation) ==
  CASE orientation = 2 -> <<-1, 0, 0, 1, img.width, 0>>
    [] orientation = 3 -> <<-1, 0, 0, -1, img.width, img.height>>
    [] orientation = 4 -> <<1, 0, 0, -1, 0, img.height>>
    [] orientation = 5 -> <<0, 1, 1, 0, 0, 0>>
    [] orientation = 6 -> <<0, 1, -1, 0, img.height, 0>>
    [] orientation = 7 -> <<0, -1, -1, 0, img.height, img.width>>
    [] orientation = 8 -> <<0, -1, 1, 0, 0, img.width>>
    [] OTHER -> Identity

\* getTransform(img, orientation) of ./utils: the canonical width and height
\* (swapped for the tags that rotate by 90 or 270 degrees) and the entry of
\* the transform table.
getTransform(img, orientation) ==
  IF orientation \in 5..8
    THEN [width |-> img.height, height |-> img.width,
          matrix |-> TransformTable(img, orientation)]
    ELSE [width |-> img.width, height |-> img.height,
          matrix |-> TransformTable(img, orientation)]

\* a rectangle of a bitmap, [x0, x1] by [y0, y1]
Rect(x0, x1, y0, y1) == [x0 |-> x0, x1 |-> x1, y0 |-> y0, y1 |-> y1]
SetMin(S) == CHOOSE x \in S : \A y \in S : x <= y
SetMax(S) == CHOOSE x \in S : \A y \in S : x >= y
\* where fillRect, clearRect or drawImage on (0, 0, w, h) lands in the bitmap
\* of a context whose current transform is m
Apply(m, w, h) ==
  LET xs == {m[5], m[1] * w + m[5], m[3] * h + m[5], m[1] * w + m[3] * h + m[5]}
      ys == {m[6], m[2] * w + m[6], m[4] * h + m[6], m[2] * w + m[4] * h + m[6]}
  IN Rect(SetMin(xs), SetMax(xs), SetMin(ys), SetMax(ys))

\* canvas.toDataURL(type, quality): the format the host encodes; a type it
\* does not encode gives PNG.
EncodedFormat(type) == IF isSupportedType(type) THEN type ELSE MIME_TYPES.PNG

(* ------------------------------ clear ---------------------------------- *)
\* clear(ctx, width, height): the fill chosen from the instance's outputType
clear(type) == IF type = DEFAULT_TYPE THEN "white" ELSE "transparent"

(* ----------------------------- drawImage ------------------------------- *)
\* Math.min(MAX_STEPS, Math.ceil((1 / scale) / SCALE_FACTOR))
StepCount(scale) ==
  IntMin(MAX_STEPS, Ceil(scale.den * SCALE_FACTOR.den, scale.num * SCALE_FACTOR.num))

\* Shrink rounding up instead of truncating
ShrinkRoundsUp(width, scale, steps) ==
  IF width = 0 THEN 0
  ELSE LET rhs == (width ^ steps) * scale.num
       IN CHOOSE d \in 0..width :
            /\ (d ^ steps) * scale.den >= rhs
            /\ (d = 0 \/ ((d - 1) ^ steps) * scale.den < rhs)

\* width * factor | 0 with factor = Math.pow(scale, 1 / steps): the largest
\* integer d with d^steps <= width^steps * scale.  The root is taken exactly;
\* the rounding of Math.pow can only matter when scale is a perfect
\* steps-th power, which needs sizes beyond the bounds explored here.
Shrink(width, scale, steps) ==
  IF width = 0 THEN 0
  ELSE LET rhs == (width ^ steps) * scale.num
       IN CHOOSE d \in 0..width :
            /\ (d ^ steps) * scale.den <= rhs
            /\ ((d + 1) ^ steps) * scale.den > rhs

NoResult == [returned |-> "nothing", threw |-> FALSE, width |-> 0, height |-> 0,
             steps |-> 0, mirror |-> FALSE, log |-> << >>,
             readBacks |-> 0, resizes |-> 0]

\* the buffers of a step with no change of roles
BuffersNoSwap(i) == [src |-> "source", dst |-> "mirror"]

\* lines 146-152: the buffer read and the buffer drawn into at iteration i
Buffers(i) ==
  IF i % 2 = 0 THEN [src |-> "source", dst |-> "mirror"]
               ELSE [src |-> "mirror", dst |-> "source"]

\* the element of a set of one element
The(S) == CHOOSE x \in S : TRUE

\* the while loop of drawImage from iteration i on; log holds the steps done.
\* dw and dh are computed once per iteration, as the loop does, and are the
\* width and height of the next iteration.  ctm is the transform of the
\* context drawn into: sctx is the context getOriginInfo transformed, mctx
\* is new.
RECURSIVE ScaleLoop(_, _, _, _, _, _, _, _)
ScaleLoop(i, steps, width, height, scale, source, type, log) ==
  IF i >= steps
    THEN \* the loop ends without a return: the function returns undefined
         [NoResult EXCEPT !.steps = steps, !.mirror = TRUE, !.log = log]
    ELSE
      The({
        LET src == Buffers(i).src
            dst == Buffers(i).dst
            step == [i |-> i, src |-> src, dst |-> dst,
                     sw |-> width, sh |-> height, dw |-> dw, dh |-> dh,
                     clearW |-> width, clearH |-> height, fill |-> clear(type),
                     ctm |-> ctm, cleared |-> Apply(ctm, width, height),
                     drawn |-> Apply(ctm, dw, dh)]
            log2 == Append(log, step)
        IN IF i + 1 = steps
             THEN IF dw = 0 \/ dh = 0
                    THEN \* getImageData(0, 0, 0, h) throws IndexSizeError
                         [NoResult EXCEPT !.threw = TRUE, !.steps = steps,
                                          !.mirror = TRUE, !.log = log2]
                    ELSE [returned |-> dst, threw |-> FALSE,
                          width |-> dw, height |-> dh, steps |-> steps,
                          mirror |-> TRUE, log |-> log2,
                          readBacks |-> 1, resizes |-> 1]
             ELSE ScaleLoop(i + 1, steps, dw, dh, scale, source, type, log2)
        : dw \in {Shrink(width, scale, steps)},
          dh \in {Shrink(height, scale, steps)},
          ctm \in {IF Buffers(i).dst = "source" THEN source.ctm ELSE Identity} })

\* drawImage without the early return for scale === 1
drawImageNoShortcut(source, scale, type) ==
  ScaleLoop(0, StepCount(scale), source.width, source.height,
            scale, source, type, << >>)

drawImage(source, scale, type) ==
  IF RatIsOne(scale)
    THEN [NoResult EXCEPT !.returned = "source",
                          !.width = source.width, !.height = source.height]
    ELSE ScaleLoop(0, StepCount(scale), source.width, source.height,
                   scale, source, type, << >>)

\* Math.min(1, maxWidth / canvas.width, maxHeight / canvas.height)
ComputeScale(cfg, cv) ==
  RatMin(Rat(1, 1), RatMin(Rat(cfg.maxWidth, cv.width), Rat(cfg.maxHeight, cv.height)))

(* ------------------------------- inputs -------------------------------- *)
Calls == 1..MaxCalls
Types == SUPPORT_MIME_TYPES \cup {"image/gif", "text/plain"}
\* EXIF Orientation tags; 0 stands for an absent tag
Orientations == {0, 1, 3, 6}

\* an input file: its declared type and byte size, and what decoding its
\* bytes gives (intrinsic width, height and Orientation tag)
Files == [type : Types, size : 1..MaxSize, width : 1..MaxDim,
          height : 1..MaxDim, orientation : Orientations]
\* the files offered to calls that run concurrently: a supported type, a
\* type that falls back to the default and a type the gate rejects
ConcurrentFiles == [type : {MIME_TYPES.PNG, "image/gif", "text/plain"},
                    size : {MaxSize}, width : {MaxDim},
                    height : {1, MaxDim}, orientation : {1}]

\* the files offered where every call is followed to its end: an image that
\* is scaled, an image whose scaling ends in a zero dimension, and a file
\* the gate rejects
FairFiles == {f \in ConcurrentFiles :
                /\ f.type # "image/gif"
                /\ f.type = "text/plain" => f.height = 1}

\* the option object given to the constructor: any subset of the two bounds
Options == UNION {[K -> 1..MaxBound] : K \in SUBSET {"maxWidth", "maxHeight"}}
ConcurrentOptions == {o \in Options : DOMAIN o = {"maxWidth"} /\ o.maxWidth = MaxBound}
                       \cup {o \in Options : DOMAIN o = {}}

Defaults == [maxWidth |-> 1600, maxHeight |-> 1600, quality |-> Rat(92, 100)]
\* Object.assign(defaults, option)
Assign(defaults, option) ==
  [k \in DOMAIN defaults \cup DOMAIN option |->
     IF k \in DOMAIN option THEN option[k] ELSE defaults[k]]

\* the Image the host builds from a file once it has loaded
Decode(f) == [width |-> f.width, height |-> f.height, orientation |-> f.orientation]

(* ------------------------------- state --------------------------------- *)
VARIABLES
  config,        \* this.config
  outputType,    \* this.outputType
  pc,            \* pc[c]: where call c stands
  file,          \* file[c]: the argument of call c
  srcDimension,  \* srcDimension[c]: the local of that name
  canvas,        \* canvas[c]: the surface getOriginInfo resolved with
  scale,         \* scale[c]: the local of that name
  result,        \* result[c]: what drawImage returned
  candidate,     \* candidate[c]: distBlob as built on line 57
  outcome,       \* outcome[c]: the value the promise resolved with
  error,         \* error[c]: the reason the promise rejected with
  failedFrom,    \* failedFrom[c]: the stage in which call c rejected
  warned,        \* warned[c]: console.warn was called
  loads,         \* loads[c]: images whose load was started
  surfaces,      \* surfaces[c]: canvases created
  stages         \* stages[c]: the stages call c has started, in order

vars == <<config, outputType, pc, file, srcDimension, canvas, scale, result,
          candidate, outcome,
          error, failedFrom, warned, loads, surfaces, stages>>

NoFile == [type |-> "", size |-> 0, width |-> 0, height |-> 0, orientation |-> 0]
NoDimension == [width |-> 0, height |-> 0]
NoSurface == [width |-> 0, height |-> 0, fill |-> "none", ctm |-> <<0, 0, 0, 0, 0, 0>>,
              cleared |-> Rect(0, 0, 0, 0), drawn |-> Rect(0, 0, 0, 0)]
NoBlob == [origin |-> "none", size |-> 0, type |-> "", format |-> ""]
NoOutcome == [dist |-> [blob |-> NoBlob, width |-> 0, height |-> 0],
              source |-> [blob |-> NoBlob, width |-> 0, height |-> 0]]

\* the File object seen as a blob
FileBlob(f) == [origin |-> "file", size |-> f.size, type |-> f.type, format |-> f.type]

InitWith(options) ==
  /\ \E option \in options : config = Assign(Defaults, option)
  /\ outputType = "undefined"
  /\ pc = [c \in Calls |-> "Idle"]
  /\ file = [c \in Calls |-> NoFile]
  /\ srcDimension = [c \in Calls |-> NoDimension]
  /\ canvas = [c \in Calls |-> NoSurface]
  /\ scale = [c \in Calls |-> Rat(0, 1)]
  /\ candidate = [c \in Calls |-> NoBlob]
  /\ result = [c \in Calls |-> NoResult]
  /\ outcome = [c \in Calls |-> NoOutcome]
  /\ error = [c \in Calls |-> ""]
  /\ failedFrom = [c \in Calls |-> ""]
  /\ warned = [c \in Calls |-> FALSE]
  /\ loads = [c \in Calls |-> 0]
  /\ surfaces = [c \in Calls |-> 0]
  /\ stages = [c \in Calls |-> << >>]

Init == InitWith(ConcurrentOptions)
InitSolo == InitWith(Options)

(* ------------------------------ handlers ------------------------------- *)
\* process with the fallback to the default type placed before the gate
processFallbackFirst(c, files) ==
  /\ pc[c] = "Idle"
  /\ \E f \in files :
       /\ file' = [file EXCEPT ![c] = f]
       /\ outputType' = IF isSupportedType(f.type) THEN f.type ELSE DEFAULT_TYPE
       /\ warned' = [warned EXCEPT ![c] = ~isSupportedType(f.type)]
       /\ IF ~MatchesImage(f.type)
            THEN /\ pc' = [pc EXCEPT ![c] = "Failed"]
                 /\ error' = [error EXCEPT ![c] = "unsupport file type"]
                 /\ failedFrom' = [failedFrom EXCEPT ![c] = "Idle"]
                 /\ UNCHANGED <<loads, stages>>
            ELSE /\ loads' = [loads EXCEPT ![c] = @ + 1]
                 /\ pc' = [pc EXCEPT ![c] = "Decoding"]
                 /\ stages' = [stages EXCEPT ![c] = Append(@, "Decoding")]
                 /\ UNCHANGED <<error, failedFrom>>
  /\ UNCHANGED <<config, srcDimension, canvas, scale, result, candidate,
                 outcome, surfaces>>

\* process(file), for a file of files, up to the return of the promise
process(c, files) ==
  /\ pc[c] = "Idle"
  /\ \E f \in files :
       /\ file' = [file EXCEPT ![c] = f]
       /\ IF ~MatchesImage(f.type)
            THEN /\ outputType' = f.type
                 /\ pc' = [pc EXCEPT ![c] = "Failed"]
                 /\ error' = [error EXCEPT ![c] = "unsupport file type"]
                 /\ failedFrom' = [failedFrom EXCEPT ![c] = "Idle"]
                 /\ UNCHANGED <<warned, loads, stages>>
            ELSE /\ outputType' = IF isSupportedType(f.type) THEN f.type
                                                            ELSE DEFAULT_TYPE
                 /\ warned' = [warned EXCEPT ![c] = ~isSupportedType(f.type)]
                 \* getOriginImage: the load of a new Image is started
                 /\ loads' = [loads EXCEPT ![c] = @ + 1]
                 /\ pc' = [pc EXCEPT ![c] = "Decoding"]
                 /\ stages' = [stages EXCEPT ![c] = Append(@, "Decoding")]
                 /\ UNCHANGED <<error, failedFrom>>
  /\ UNCHANGED <<config, srcDimension, canvas, scale, result, candidate,
                 outcome, surfaces>>

\* img.onload: resolve(img)
onload(c) ==
  /\ pc[c] = "Decoding"
  /\ pc' = [pc EXCEPT ![c] = "Loaded"]
  /\ UNCHANGED <<config, outputType, file, srcDimension, canvas, scale, result,
                 candidate, outcome, error, failedFrom, warned, loads, surfaces,
                 stages>>

\* the error handler starting the load once more instead of rejecting
onerrorRetries(c) ==
  /\ pc[c] = "Decoding"
  /\ IF loads[c] < 2
       THEN /\ loads' = [loads EXCEPT ![c] = @ + 1]
            /\ UNCHANGED <<pc, error, failedFrom>>
       ELSE /\ pc' = [pc EXCEPT ![c] = "Failed"]
            /\ error' = [error EXCEPT ![c] = "image load error"]
            /\ failedFrom' = [failedFrom EXCEPT ![c] = "Decoding"]
            /\ UNCHANGED loads
  /\ UNCHANGED <<config, outputType, file, srcDimension, canvas, scale, result,
                 candidate, outcome, warned, surfaces, stages>>

\* img.onerror: reject("image load error")
onerror(c) ==
  /\ pc[c] = "Decoding"
  /\ pc' = [pc EXCEPT ![c] = "Failed"]
  /\ error' = [error EXCEPT ![c] = "image load error"]
  /\ failedFrom' = [failedFrom EXCEPT ![c] = "Decoding"]
  /\ UNCHANGED <<config, outputType, file, srcDimension, canvas, scale, result,
                 candidate, outcome, warned, loads, surfaces, stages>>

\* the first continuation not returning the promise of getOriginInfo: the
\* next continuation is queued at once
thenImgNoReturn(c) ==
  /\ pc[c] = "Loaded"
  /\ srcDimension' = [srcDimension EXCEPT
                        ![c] = [width |-> Decode(file[c]).width,
                                height |-> Decode(file[c]).height]]
  /\ pc' = [pc EXCEPT ![c] = "Scaling"]
  /\ stages' = [stages EXCEPT ![c] = Append(@, "OrientationResolving")]
  /\ UNCHANGED <<config, outputType, file, canvas, scale, result, candidate,
                 outcome, error, failedFrom, warned, loads, surfaces>>

\* .then(img => ...): records the source dimension and calls getOriginInfo,
\* which hands its callback to EXIF.getData
thenImg(c) ==
  /\ pc[c] = "Loaded"
  /\ srcDimension' = [srcDimension EXCEPT
                        ![c] = [width |-> Decode(file[c]).width,
                                height |-> Decode(file[c]).height]]
  /\ pc' = [pc EXCEPT ![c] = "OrientationResolving"]
  /\ stages' = [stages EXCEPT ![c] = Append(@, "OrientationResolving")]
  /\ UNCHANGED <<config, outputType, file, canvas, scale, result, candidate,
                 outcome, error, failedFrom, warned, loads, surfaces>>

\* the callback of EXIF.getData in getOriginInfo
exifCallback(c) ==
  /\ pc[c] = "OrientationResolving"
  /\ \E img \in {Decode(file[c])} :
     \E orientation \in {IF img.orientation = 0 THEN 1 ELSE img.orientation} :
     \E t \in {getTransform(img, orientation)} :
        canvas' = [canvas EXCEPT
                     ![c] = [width |-> t.width, height |-> t.height,
                             fill |-> clear(outputType), ctm |-> t.matrix,
                             \* cleared before the transform, drawn after it
                             cleared |-> Apply(Identity, t.width, t.height),
                             drawn |-> Apply(t.matrix, img.width, img.height)]]
  /\ surfaces' = [surfaces EXCEPT ![c] = @ + 1]
  /\ pc' = [pc EXCEPT ![c] = "Scaling"]
  /\ UNCHANGED <<config, outputType, file, srcDimension, scale, result,
                 candidate, outcome, error, failedFrom, warned, loads, stages>>

\* .then(canvas => ...): the scale and the whole of drawImage
thenCanvas(c) ==
  /\ pc[c] = "Scaling"
  /\ stages' = [stages EXCEPT ![c] = Append(@, "Scaling")]
  /\ \E s \in {ComputeScale(config, canvas[c])} :
     \E r \in {drawImage(canvas[c], s, outputType)} :
        /\ scale' = [scale EXCEPT ![c] = s]
        /\ result' = [result EXCEPT ![c] = r]
        /\ surfaces' = [surfaces EXCEPT ![c] = IF r.mirror THEN @ + 1 ELSE @]
        /\ IF r.threw
             THEN /\ pc' = [pc EXCEPT ![c] = "Failed"]
                  /\ error' = [error EXCEPT ![c] = "IndexSizeError"]
                  /\ failedFrom' = [failedFrom EXCEPT ![c] = "Scaling"]
             ELSE /\ pc' = [pc EXCEPT ![c] = "Encoding"]
                  /\ UNCHANGED <<error, failedFrom>>
  /\ UNCHANGED <<config, outputType, file, srcDimension, canvas, candidate,
                 outcome, warned, loads>>

\* the size guard left out: the candidate is always returned
SizeGuardKeepsCandidate(f, distBlob, distDimension, srcDim) ==
  [blob |-> distBlob, width |-> distDimension.width, height |-> distDimension.height]

\* the size guard replacing the blob but not the dimension
SizeGuardKeepsDimension(f, distBlob, distDimension, srcDim) ==
  IF distBlob.size > f.size
    THEN [blob |-> FileBlob(f), width |-> distDimension.width,
          height |-> distDimension.height]
    ELSE [blob |-> distBlob, width |-> distDimension.width,
          height |-> distDimension.height]

\* the size guard comparing with >= instead of >
SizeGuardNotSmaller(f, distBlob, distDimension, srcDim) ==
  IF distBlob.size >= f.size
    THEN [blob |-> FileBlob(f), width |-> srcDim.width, height |-> srcDim.height]
    ELSE [blob |-> distBlob, width |-> distDimension.width,
          height |-> distDimension.height]

\* the size guard of lines 60-63, on the candidate blob and its dimension
SizeGuard(f, distBlob, distDimension, srcDim) ==
  IF distBlob.size > f.size
    THEN [blob |-> FileBlob(f), width |-> srcDim.width, height |-> srcDim.height]
    ELSE [blob |-> distBlob, width |-> distDimension.width,
          height |-> distDimension.height]

\* .then(result => ...): encode, size guard, outcome
thenResult(c) ==
  /\ pc[c] = "Encoding"
  /\ IF result[c].returned = "nothing"
       THEN \* result is undefined: result.toDataURL throws TypeError
            /\ pc' = [pc EXCEPT ![c] = "Failed"]
            /\ error' = [error EXCEPT ![c] = "TypeError"]
            /\ failedFrom' = [failedFrom EXCEPT ![c] = "Encoding"]
            /\ stages' = [stages EXCEPT ![c] = Append(@, "Encoding")]
            /\ UNCHANGED <<outcome, candidate>>
       ELSE /\ \E n \in 1..MaxCandidate :
                 LET distBlob == [origin |-> "candidate", size |-> n,
                                  type |-> outputType,
                                  format |-> EncodedFormat(outputType)]
                     distDimension == [width |-> result[c].width,
                                       height |-> result[c].height]
                 IN /\ candidate' = [candidate EXCEPT ![c] = distBlob]
                    /\ outcome' = [outcome EXCEPT
                         ![c] = [dist |-> SizeGuard(file[c], distBlob, distDimension,
                                                    srcDimension[c]),
                                 source |-> [blob |-> FileBlob(file[c]),
                                             width |-> srcDimension[c].width,
                                             height |-> srcDimension[c].height]]]
            /\ stages' = [stages EXCEPT ![c] = @ \o <<"Encoding", "Guarding">>]
            /\ pc' = [pc EXCEPT ![c] = "Done"]
            /\ UNCHANGED <<error, failedFrom>>
  /\ UNCHANGED <<config, outputType, file, srcDimension, canvas, scale, result,
                 warned, loads, surfaces>>

(* --------------------------- specifications ---------------------------- *)
Step(c, files) ==
  \/ process(c, files)
  \/ onload(c)
  \/ onerror(c)
  \/ thenImg(c)
  \/ exifCallback(c)
  \/ thenCanvas(c)
  \/ thenResult(c)

\* calls interleaving on one instance
Next == \E c \in Calls : Step(c, ConcurrentFiles)
Spec == Init /\ [][Next]_vars

\* one call at a time, over all inputs and options
NextSolo == Step(1, Files)
SpecSolo == InitSolo /\ [][NextSolo]_vars

\* what happens to a started call without the caller: the load of the image
\* signals ready or errored, the metadata read invokes its callback, and the
\* continuations of the promise chain are run
Settle(c) ==
  \/ onload(c)
  \/ onerror(c)
  \/ thenImg(c)
  \/ exifCallback(c)
  \/ thenCanvas(c)
  \/ thenResult(c)

\* the calls interleaving, every started call being carried on
NextFair == \E c \in Calls : Step(c, FairFiles)
SpecFair == Init /\ [][NextFair]_vars /\ \A c \in Calls : WF_vars(Settle(c))

(* ------------------------------- claims -------------------------------- *)
Fits(c) == /\ canvas[c].width <= config.maxWidth
           /\ canvas[c].height <= config.maxHeight
Scaled(c) == pc[c] \in {"Encoding", "Done"}
Image(c) == [width |-> Decode(file[c]).width, height |-> Decode(file[c]).height]

\* C1: in every resolved outcome the payload of dist is no larger than the
\* payload of source, which is the input file.
C1_DistNoLargerThanSource ==
  \A c \in Calls : pc[c] = "Done" =>
    /\ outcome[c].source.blob = FileBlob(file[c])
    /\ outcome[c].dist.blob.size <= outcome[c].source.blob.size

\* a call resolved whose candidate, on a downscaled surface, was larger than
\* the file
C1_Witness ==
  \E c \in Calls : /\ pc[c] = "Done"
                   /\ result[c].steps > 0
                   /\ candidate[c].size > file[c].size

\* C2: whatever the interleaving, the fill used for the canonical surface and
\* for every scaling step, the format encoded and the type of the blob are
\* those of the call's own input type.
C2_CallsDoNotInterfere ==
  \A c \in Calls :
    LET own == IF isSupportedType(file[c].type) THEN file[c].type ELSE DEFAULT_TYPE
    IN /\ canvas[c] # NoSurface => canvas[c].fill = clear(own)
       /\ \A i \in 1..Len(result[c].log) : result[c].log[i].fill = clear(own)
       /\ candidate[c] # NoBlob =>
            /\ candidate[c].type = own
            /\ candidate[c].format = EncodedFormat(own)

\* C3: the size guard returns the file with the decoded dimension of the
\* image when the candidate is strictly larger than the file, and the
\* candidate with the dimension of the returned surface otherwise.
C3_GuardPairsPayloadAndDimension ==
  \A c \in Calls : pc[c] = "Done" =>
    IF candidate[c].size > file[c].size
      THEN outcome[c].dist = [blob |-> FileBlob(file[c]),
                              width |-> Image(c).width,
                              height |-> Image(c).height]
      ELSE outcome[c].dist = [blob |-> candidate[c],
                              width |-> result[c].width,
                              height |-> result[c].height]

\* the guard replaced the candidate of a surface whose dimension differs from
\* the decoded one
C3_Witness ==
  \E c \in Calls : /\ pc[c] = "Done"
                   /\ candidate[c].size > file[c].size
                   /\ result[c].width # Image(c).width
                   /\ outcome[c].dist.blob.origin = "file"

C5_DistFitsBounds ==
  \A c \in Calls : pc[c] = "Done" =>
    /\ outcome[c].dist.width <= config.maxWidth
    /\ outcome[c].dist.height <= config.maxHeight

\* C5 amended: dist fits within maxWidth and maxHeight whenever the size
\* guard keeps the candidate.
C5_CandidateFitsBounds ==
  \A c \in Calls :
    (pc[c] = "Done" /\ outcome[c].dist.blob.origin = "candidate") =>
      /\ outcome[c].dist.width <= config.maxWidth
      /\ outcome[c].dist.height <= config.maxHeight

\* a kept candidate of an image that exceeded a bound, after rotation
C5_Witness ==
  \E c \in Calls : /\ pc[c] = "Done"
                   /\ outcome[c].dist.blob.origin = "candidate"
                   /\ ~Fits(c)
                   /\ canvas[c].width # Image(c).width

\* C6: every step of the scaling loop computes a width and a height of at
\* least 1, and so have the returned surface and dist.
C6_DimensionsAtLeastOne ==
  \A c \in Calls :
    /\ \A i \in 1..Len(result[c].log) :
         result[c].log[i].dw >= 1 /\ result[c].log[i].dh >= 1
    /\ Scaled(c) => result[c].width >= 1 /\ result[c].height >= 1
    /\ pc[c] = "Done" => outcome[c].dist.width >= 1 /\ outcome[c].dist.height >= 1

\* C7: a call that passed the validation gate rejects from Decoding only.
C7_FailsFromDecodingOnly ==
  \A c \in Calls :
    (pc[c] = "Failed" /\ MatchesImage(file[c].type)) => failedFrom[c] = "Decoding"

\* C8: a call whose file is not of an image type is rejected at once with
\* the unsupported-type error: no load, no surface, no warning, no outcome.
C8_NonImageRejectedAtOnce ==
  \A c \in Calls :
    (pc[c] # "Idle" /\ ~MatchesImage(file[c].type)) =>
      /\ pc[c] = "Failed"
      /\ error[c] = "unsupport file type"
      /\ failedFrom[c] = "Idle"
      /\ loads[c] = 0
      /\ surfaces[c] = 0
      /\ ~warned[c]
      /\ outcome[c] = NoOutcome
      /\ canvas[c] = NoSurface /\ result[c] = NoResult /\ candidate[c] = NoBlob

\* a text/plain file was given to process
C8_Witness ==
  \E c \in Calls : file[c].type = "text/plain" /\ pc[c] = "Failed"

\* C9: a resolved call on an image type outside PNG, JPEG, WEBP has warned
\* and its dist payload, when it is the candidate, is encoded as JPEG.
C9_FallbackEncodesJpeg ==
  \A c \in Calls :
    (/\ pc[c] = "Done"
     /\ MatchesImage(file[c].type)
     /\ ~isSupportedType(file[c].type)
     /\ outcome[c].dist.blob.origin = "candidate") =>
      /\ warned[c]
      /\ outcome[c].dist.blob.format = DEFAULT_TYPE

\* C10: the scale is never above 1; when the canonical surface fits both
\* bounds the scale is 1 and drawImage returns the surface it was given,
\* with no mirror, no clear, no draw, no read-back and no resize.
C10_PassThroughWhenFits ==
  \A c \in Calls : Scaled(c) =>
    /\ RatLeq(scale[c], Rat(1, 1))
    /\ Fits(c) =>
         /\ scale[c] = Rat(1, 1)
         /\ result[c] = [NoResult EXCEPT !.returned = "source",
                                         !.width = canvas[c].width,
                                         !.height = canvas[c].height]
         /\ surfaces[c] = 1

\* a rotated image that fits the bounds went through the scaler
C10_Witness ==
  \E c \in Calls : /\ pc[c] = "Done"
                   /\ Fits(c)
                   /\ config.maxWidth <= MaxBound
                   /\ canvas[c].width # Image(c).width

StageOrder == <<"Decoding", "OrientationResolving", "Scaling", "Encoding", "Guarding">>
IsPrefix(s, t) == Len(s) <= Len(t) /\ s = SubSeq(t, 1, Len(s))

\* C11: the stages of a call start in the order Decoding,
\* OrientationResolving, Scaling, Encoding, Guarding, each once and each
\* after the stage before it has delivered its result; a resolved call has
\* run all five, the size guard last.
C11_StagesInOrder ==
  \A c \in Calls :
    /\ IsPrefix(stages[c], StageOrder)
    /\ Len(stages[c]) >= 1 => loads[c] = 1
    /\ Len(stages[c]) >= 3 => canvas[c] # NoSurface /\ surfaces[c] >= 1
    /\ Len(stages[c]) >= 4 => result[c].returned # "nothing"
    /\ Len(stages[c]) >= 5 => candidate[c] # NoBlob
    /\ pc[c] = "Done" => stages[c] = StageOrder

\* a call resolved through the pass-through of the scaler
C11_Witness ==
  \E c \in Calls : /\ pc[c] = "Done"
                   /\ result[c].steps = 0
                   /\ stages[c] = StageOrder

SameDistDimension(c, d) ==
  /\ outcome[c].dist.width = outcome[d].dist.width
  /\ outcome[c].dist.height = outcome[d].dist.height

\* C12 as stated: two resolved calls on the same file have the same dist
\* width and height, whatever sizes the encoder returned.
C12_SameInputSameDimension ==
  \A c, d \in Calls :
    (pc[c] = "Done" /\ pc[d] = "Done" /\ file[c] = file[d]) =>
      SameDistDimension(c, d)

\* C12 amended: two resolved calls on the same file have the same dist width
\* and height whenever their candidates fall on the same side of the size
\* guard.
C12_SameSideSameDimension ==
  \A c, d \in Calls :
    (/\ pc[c] = "Done" /\ pc[d] = "Done" /\ file[c] = file[d]
     /\ (candidate[c].size > file[c].size) = (candidate[d].size > file[d].size)) =>
      SameDistDimension(c, d)

\* two calls on one file, downscaled, with candidates of different sizes that
\* the guard both kept
C12_Witness ==
  \E c, d \in Calls :
    /\ c # d /\ pc[c] = "Done" /\ pc[d] = "Done" /\ file[c] = file[d]
    /\ result[c].steps > 0
    /\ candidate[c].size < candidate[d].size
    /\ outcome[c].dist.blob.origin = "candidate"
    /\ outcome[d].dist.blob.origin = "candidate"

\* ceil(ln(1/s) / ln 2) for a scale s < 1: the least k with 2^k >= 1/s
CeilLog2(s) ==
  CHOOSE k \in 0..s.den :
    /\ (2 ^ k) * s.num >= s.den
    /\ k = 0 \/ (2 ^ (k - 1)) * s.num < s.den

Downscaled(c) == scale[c] # Rat(0, 1) /\ ~RatIsOne(scale[c])

\* C13: for a scale s below 1 the scaler takes min(4, ceil(ln(1/s) / ln 2))
\* steps.
C13_StepsAreCeilLog2 ==
  \A c \in Calls :
    Downscaled(c) => result[c].steps = IntMin(MAX_STEPS, CeilLog2(scale[c]))

\* C14: for a scale below 1 the step count is between 1 and MAX_STEPS, the
\* loop makes that many draws and drawImage then returns a surface.
C14_ScalerReturnsSurface ==
  \A c \in Calls :
    Downscaled(c) =>
      /\ result[c].steps \in 1..MAX_STEPS
      /\ Len(result[c].log) = result[c].steps
      /\ result[c].returned # "nothing"

Covers(r, w, h) ==
  \/ w = 0
  \/ h = 0
  \/ r.x0 <= 0 /\ r.x1 >= w /\ r.y0 <= 0 /\ r.y1 >= h

\* C16: for a scale below 1 drawImage returns the buffer the last step drew
\* into, with the width and height of that draw's destination extent, and
\* that extent of the buffer holds exactly what the draw produced; there is
\* one read-back and one resize.
C16_ReturnsWhatLastStepDrew ==
  \A c \in Calls :
    (Downscaled(c) /\ result[c].returned # "nothing") =>
      LET last == result[c].log[Len(result[c].log)]
      IN /\ result[c].returned = last.dst
         /\ result[c].width = last.dw
         /\ result[c].height = last.dh
         /\ last.drawn = Rect(0, last.dw, 0, last.dh)
         /\ result[c].readBacks = 1
         /\ result[c].resizes = 1

\* C17: the orientation draw and every scaling step's draw follow a clear of
\* their destination that covers the extent later read from it.
C17_ClearCoversExtentRead ==
  \A c \in Calls :
    /\ canvas[c] # NoSurface =>
         /\ Covers(canvas[c].cleared, canvas[c].width, canvas[c].height)
         /\ Covers(canvas[c].drawn, canvas[c].width, canvas[c].height)
    /\ result[c].returned # "nothing" =>
         \A i \in 1..Len(result[c].log) :
           LET step == result[c].log[i]
           IN Covers(step.cleared, step.dw, step.dh)


\* C18: a call rejected by the validation gate leaves the instance as it
\* was: config and the current output type have the same values after the
\* rejecting step of process as before it.
C18_RejectedCallLeavesInstance ==
  [][\A c \in Calls :
       (pc[c] = "Idle" /\ pc'[c] = "Failed") =>
         /\ config' = config
         /\ outputType' = outputType]_vars

Settled(c) == pc[c] \in {"Done", "Failed"}

\* C19: every started call eventually settles, and exactly once: it ends
\* resolved with an outcome and no error or rejected with an error and no
\* outcome, has neither before, never changes once settled, and its image
\* load is started at most once, also after a load error.
C19_SettlesExactlyOnce ==
  /\ \A c \in Calls : (pc[c] # "Idle") ~> Settled(c)
  /\ [](\A c \in Calls :
          /\ pc[c] = "Done" => (outcome[c] # NoOutcome /\ error[c] = "")
          /\ pc[c] = "Failed" => (outcome[c] = NoOutcome /\ error[c] # "")
          /\ ~Settled(c) => (outcome[c] = NoOutcome /\ error[c] = "")
          /\ loads[c] <= 1)
  /\ [][\A c \in Calls :
          Settled(c) => /\ pc'[c] = pc[c]
                        /\ outcome'[c] = outcome[c]
                        /\ error'[c] = error[c]
                        /\ loads'[c] = loads[c]]_vars

\* one call was rejected by a load error, after a single load, while
\* another call on the instance was resolved
C19_Witness ==
  \E c, d \in Calls :
    /\ pc[c] = "Failed" /\ error[c] = "image load error" /\ loads[c] = 1
    /\ pc[d] = "Done" /\ outcome[d] # NoOutcome

====
